---- MODULE Spec2Model ----
(***************************************************************************)
(* Study-progress tracker: the date-keyed CSV stores of DataManager        *)
(* (immersion minutes, TOEIC checklist), the task catalog and per-task     *)
(* stores of TaskConfigManager.                                            *)
(*                                                                         *)
(* A CSV file is the sequence of its data rows, in file order.  A cell of  *)
(* the notes column is kept as the text that stands in the file; a loaded  *)
(* DataFrame holds, for the notes column, the value pandas parses from it  *)
(* (NaN, an int64, a float64 or a str), because read_csv infers the type   *)
(* of a column from every cell of it and to_csv writes each value back by  *)
(* its repr.  An assignment of a str into a numeric notes column upcasts   *)
(* the column to object (pandas 1.x and 2.x).  Dates are day numbers.      *)
(*                                                                         *)
(* Every operation of the managers runs in a try block whose except branch *)
(* returns False (or the empty frame, or the empty catalog).  The files    *)
(* live outside the program: a file may be removed or mangled (unreadable),*)
(* and a write may be refused when the file is opened, or fail after the   *)
(* open has cut the file to nothing (torn); `disk` holds which.            *)
(***************************************************************************)
EXTENDS Integers, Sequences, FiniteSets, TLC

VARIABLES
    immersion_file,   \* rows of immersion_data.csv: [date, minutes, notes]
    toeic_file,       \* rows of toeic_data.csv
    task_files,       \* custom_task_data/<id>_data.csv: task id -> rows
    config_file,      \* task_config.json: [tasks |-> sequence of definitions]
    last,             \* the last call made on a manager and what it returned
    written,          \* per store and date, the payload of the last upsert
    unreadable,       \* the files that are missing or cannot be parsed
    disk              \* per file or directory, what a write to it does

vars == <<immersion_file, toeic_file, task_files, config_file, last, written,
          unreadable, disk>>

----------------------------------------------------------------------------
(* Bounds of the model *)

MaxDate == 2
Dates == 1..MaxDate

\* inputs of the entry forms
Minutes == {30, 45}
Notes == {"", "a", "7"}

----------------------------------------------------------------------------
(* pandas CSV round trip of the notes column *)

\* Texts read_csv parses as a number, with the repr of that number as float64.
NumberTexts == {"7", "7.0"}
IntegerTexts == {"7"}
FloatRepr(text) == IF text = "7" THEN "7.0" ELSE text

NaN == [kind |-> "nan", text |-> ""]
Str(s) == [kind |-> "str", text |-> s]

\* The dtype read_csv gives a column whose cells are the texts `cells`.
infer_dtype(cells) ==
    IF \A i \in DOMAIN cells : cells[i] = "" THEN "float64"
    ELSE IF \A i \in DOMAIN cells : cells[i] \in IntegerTexts THEN "int64"
    ELSE IF \A i \in DOMAIN cells : cells[i] = "" \/ cells[i] \in NumberTexts
         THEN "float64"
    ELSE "object"

\* The value of one cell in a column of the given dtype; an empty cell is NaN.
parse_cell(dtype, text) ==
    IF text = "" THEN NaN
    ELSE IF dtype = "int64" THEN [kind |-> "int", text |-> text]
    ELSE IF dtype = "float64" THEN [kind |-> "float", text |-> FloatRepr(text)]
    ELSE Str(text)

\* pd.read_csv: the rows of the file with the notes column parsed.
read_csv(file) ==
    LET dtype == infer_dtype([i \in DOMAIN file |-> file[i].notes])
    IN  [i \in DOMAIN file |-> [file[i] EXCEPT !.notes = parse_cell(dtype, @)]]

\* DataFrame.to_csv: every notes value written by its repr (NaN as the empty cell).
to_csv(df) == [i \in DOMAIN df |-> [df[i] EXCEPT !.notes = @.text]]

----------------------------------------------------------------------------
(* Writes that fail *)

\* What a write does: it succeeds, open(path, 'w') raises and the file is as
\* it was, or the write raises after open(path, 'w') has truncated the file.
DiskModes == {"ok", "refused", "torn"}

\* The rows of a file after df.to_csv(path) under the mode of its disk.
csv_written(mode, file, df) ==
    IF mode = "ok" THEN to_csv(df) ELSE IF mode = "torn" THEN <<>> ELSE file

\* Whether the file cannot be parsed after a write under the mode: a written
\* file parses, a truncated one is empty (EmptyDataError, JSONDecodeError).
unreadable_after(mode, was) ==
    IF mode = "ok" THEN FALSE ELSE IF mode = "torn" THEN TRUE ELSE was

----------------------------------------------------------------------------
(* DataFrame.sort_values('date'): a stable sort of the rows by date *)

RECURSIVE InsertByDate(_, _)
InsertByDate(sorted, row) ==
    IF sorted = <<>> THEN <<row>>
    ELSE IF sorted[Len(sorted)].date <= row.date THEN Append(sorted, row)
    ELSE Append(InsertByDate(SubSeq(sorted, 1, Len(sorted) - 1), row),
                sorted[Len(sorted)])

RECURSIVE SortPrefix(_, _)
SortPrefix(df, n) ==
    IF n = 0 THEN <<>> ELSE InsertByDate(SortPrefix(df, n - 1), df[n])

\* Mutant: the rows are left in the order they stand in.
sort_values_skipped(df) == df

sort_values(df) == SortPrefix(df, Len(df))

\* Mutant: the filter keeps every row.
FilterNotDate_all(df, d) == df

\* df[df['date'] != d]: the rows of another date, in order.
RECURSIVE FilterNotDate(_, _)
FilterNotDate(df, d) ==
    IF df = <<>> THEN <<>>
    ELSE LET rest == FilterNotDate(SubSeq(df, 1, Len(df) - 1), d)
             r == df[Len(df)]
         IN  IF r.date # d THEN Append(rest, r) ELSE rest

\* (df['date'] == d).any()
HasDate(df, d) == \E i \in DOMAIN df : df[i].date = d

----------------------------------------------------------------------------
(* DataManager: the immersion store *)

\* The frame of a file that parses: read_csv, then the sort by date.
load_immersion_data(file) == sort_values(read_csv(file))

\* load_immersion_data(): the except branch returns the empty frame.
immersion_frame ==
    IF unreadable.immersion THEN <<>> ELSE load_immersion_data(immersion_file)

\* Mutant: the entry is appended whether or not the date has one.
immersion_entry_rows_append(df, study_date, minutes, notes) ==
    Append(df, [date |-> study_date, minutes |-> minutes, notes |-> Str(notes)])

\* Mutant: the minutes are added to those of the entry the date has.
immersion_entry_rows_accumulate(df, study_date, minutes, notes) ==
    IF HasDate(df, study_date)
    THEN [i \in DOMAIN df |->
            IF df[i].date = study_date
            THEN [df[i] EXCEPT !.minutes = @ + minutes, !.notes = Str(notes)]
            ELSE df[i]]
    ELSE Append(df, [date |-> study_date, minutes |-> minutes,
                     notes |-> Str(notes)])

\* The rows add_immersion_entry builds from the loaded frame, before the sort.
immersion_entry_rows(df, study_date, minutes, notes) ==
    IF HasDate(df, study_date)
    THEN [i \in DOMAIN df |->
            IF df[i].date = study_date
            THEN [df[i] EXCEPT !.minutes = minutes, !.notes = Str(notes)]
            ELSE df[i]]
    ELSE Append(df, [date |-> study_date, minutes |-> minutes,
                     notes |-> Str(notes)])

add_immersion_entry(study_date, minutes, notes) ==
    LET df == immersion_frame
        rows == immersion_entry_rows(df, study_date, minutes, notes)
        mode == disk.immersion
    IN  /\ immersion_file' = csv_written(mode, immersion_file, sort_values(rows))
        /\ unreadable' = [unreadable EXCEPT
                             !.immersion = unreadable_after(mode, @)]
        /\ last' = [op |-> "add_immersion_entry", date |-> study_date,
                    minutes |-> minutes, notes |-> notes, ret |-> mode = "ok",
                    existed |-> HasDate(df, study_date),
                    repeated |-> /\ last.op = "add_immersion_entry"
                                 /\ last.date = study_date
                                 /\ last.minutes = minutes
                                 /\ last.notes = notes]
        /\ written' = IF mode = "ok"
                      THEN [written EXCEPT !.immersion[study_date] =
                               {[minutes |-> minutes, notes |-> notes]}]
                      ELSE written
        /\ UNCHANGED <<toeic_file, task_files, config_file, disk>>

delete_immersion_entry(study_date) ==
    LET df == immersion_frame
        mode == disk.immersion
    IN  /\ immersion_file' =
              csv_written(mode, immersion_file, FilterNotDate(df, study_date))
        /\ unreadable' = [unreadable EXCEPT
                             !.immersion = unreadable_after(mode, @)]
        /\ last' = [op |-> "delete_immersion_entry", date |-> study_date,
                    ret |-> mode = "ok", existed |-> HasDate(df, study_date)]
        /\ written' = IF mode = "ok"
                      THEN [written EXCEPT !.immersion[study_date] = {}]
                      ELSE written
        /\ UNCHANGED <<toeic_file, task_files, config_file, disk>>

\* A call of load_immersion_data() by a page of the application.
show_immersion_data ==
    /\ last' = [op |-> "load_immersion_data", raised |-> FALSE,
                entries |-> immersion_frame]
    /\ UNCHANGED <<immersion_file, toeic_file, task_files, config_file,
                   written, unreadable, disk>>

----------------------------------------------------------------------------
(* DataManager: the TOEIC checklist store *)

\* read_csv parses the True/False cells as bool, so astype(bool) changes nothing.
load_toeic_data(file) == sort_values(read_csv(file))

\* load_toeic_data(): the except branch returns the empty frame.
toeic_frame == IF unreadable.toeic THEN <<>> ELSE load_toeic_data(toeic_file)

\* sum([shadowing, vocabulary, reading])
BoolInt(b) == IF b THEN 1 ELSE 0
total_completed_of(shadowing, vocabulary, reading) ==
    BoolInt(shadowing) + BoolInt(vocabulary) + BoolInt(reading)

\* Mutant: an update leaves the total_completed the entry had.
toeic_entry_rows_stale_total(df, task_date, shadowing, vocabulary, reading, notes) ==
    IF HasDate(df, task_date)
    THEN [i \in DOMAIN df |->
            IF df[i].date = task_date
            THEN [df[i] EXCEPT !.shadowing = shadowing,
                               !.vocabulary = vocabulary,
                               !.reading = reading,
                               !.notes = Str(notes)]
            ELSE df[i]]
    ELSE Append(df, [date |-> task_date, shadowing |-> shadowing,
                     vocabulary |-> vocabulary, reading |-> reading,
                     total_completed |->
                         total_completed_of(shadowing, vocabulary, reading),
                     notes |-> Str(notes)])

\* The rows add_toeic_entry builds from the loaded frame, before the sort.
toeic_entry_rows(df, task_date, shadowing, vocabulary, reading, notes) ==
    LET total_completed == total_completed_of(shadowing, vocabulary, reading)
    IN  IF HasDate(df, task_date)
        THEN [i \in DOMAIN df |->
                IF df[i].date = task_date
                THEN [df[i] EXCEPT !.shadowing = shadowing,
                                   !.vocabulary = vocabulary,
                                   !.reading = reading,
                                   !.total_completed = total_completed,
                                   !.notes = Str(notes)]
                ELSE df[i]]
        ELSE Append(df, [date |-> task_date, shadowing |-> shadowing,
                         vocabulary |-> vocabulary, reading |-> reading,
                         total_completed |-> total_completed,
                         notes |-> Str(notes)])

add_toeic_entry(task_date, shadowing, vocabulary, reading, notes) ==
    LET df == toeic_frame
        rows == toeic_entry_rows(df, task_date, shadowing, vocabulary, reading,
                                 notes)
        mode == disk.toeic
    IN  /\ toeic_file' = csv_written(mode, toeic_file, sort_values(rows))
        /\ unreadable' = [unreadable EXCEPT !.toeic = unreadable_after(mode, @)]
        /\ last' = [op |-> "add_toeic_entry", date |-> task_date,
                    shadowing |-> shadowing, vocabulary |-> vocabulary,
                    reading |-> reading, notes |-> notes, ret |-> mode = "ok",
                    existed |-> HasDate(df, task_date),
                    repeated |-> /\ last.op = "add_toeic_entry"
                                 /\ last.date = task_date
                                 /\ last.shadowing = shadowing
                                 /\ last.vocabulary = vocabulary
                                 /\ last.reading = reading
                                 /\ last.notes = notes]
        /\ UNCHANGED <<immersion_file, task_files, config_file, written, disk>>

delete_toeic_entry(task_date) ==
    LET df == toeic_frame
        mode == disk.toeic
    IN  /\ toeic_file' = csv_written(mode, toeic_file, FilterNotDate(df, task_date))
        /\ unreadable' = [unreadable EXCEPT !.toeic = unreadable_after(mode, @)]
        /\ last' = [op |-> "delete_toeic_entry", date |-> task_date,
                    ret |-> mode = "ok", existed |-> HasDate(df, task_date)]
        /\ UNCHANGED <<immersion_file, task_files, config_file, written, disk>>

\* A call of load_toeic_data() by a page of the application.
show_toeic_data ==
    /\ last' = [op |-> "load_toeic_data", raised |-> FALSE,
                entries |-> toeic_frame]
    /\ UNCHANGED <<immersion_file, toeic_file, task_files, config_file,
                   written, unreadable, disk>>

----------------------------------------------------------------------------
(* TaskConfigManager: the per-task stores *)

\* os.path.exists(data_file)
data_file_exists(files, task_id) == task_id \in DOMAIN files

\* The files after _create_task_data_file: an empty table unless the file is there.
create_task_data_file(files, task_id) ==
    IF data_file_exists(files, task_id) THEN files ELSE (task_id :> <<>>) @@ files

\* _create_task_data_file under the mode of the data directory: the files and
\* the unparseable ones it leaves, and whether to_csv raised.  A torn write
\* leaves the new file with nothing in it.
try_create_task_data_file(files, bad, task_id, mode) ==
    IF data_file_exists(files, task_id) \/ mode = "ok"
    THEN [files |-> create_task_data_file(files, task_id), bad |-> bad,
          raised |-> FALSE]
    ELSE IF mode = "torn"
    THEN [files |-> (task_id :> <<>>) @@ files, bad |-> bad \cup {task_id},
          raised |-> TRUE]
    ELSE [files |-> files, bad |-> bad, raised |-> TRUE]

\* The frame load_task_data returns, given the files it left behind.
read_task_data(files, task_id) == sort_values(read_csv(files[task_id]))

\* The try block of load_task_data: the except branch returns the empty frame.
task_frame(files, bad, task_id) ==
    IF task_id \in bad THEN <<>> ELSE read_task_data(files, task_id)

\* The rows add_task_entry builds from the loaded frame, before the sort.
task_entry_rows(df, entry_date, value, notes) ==
    IF HasDate(df, entry_date)
    THEN [i \in DOMAIN df |->
            IF df[i].date = entry_date
            THEN [df[i] EXCEPT !.value = value, !.notes = Str(notes)]
            ELSE df[i]]
    ELSE Append(df, [date |-> entry_date, value |-> value, notes |-> Str(notes)])

\* save_task_data: the whole file is replaced.
save_task_data(files, task_id, df) ==
    [f \in DOMAIN files \cup {task_id} |->
        IF f = task_id THEN to_csv(df) ELSE files[f]]

NoPayloads == [d \in Dates |-> {}]

\* load_task_data: the file is created outside the try block, so a to_csv
\* that raises there reaches the caller.
load_task_data(task_id) ==
    LET c == try_create_task_data_file(task_files, unreadable.tasks, task_id,
                                       disk.tasks)
    IN  /\ task_files' = c.files
        /\ unreadable' = [unreadable EXCEPT !.tasks = c.bad]
        /\ last' = [op |-> "load_task_data", task_id |-> task_id,
                    created |-> ~data_file_exists(task_files, task_id),
                    raised |-> c.raised,
                    entries |-> IF c.raised THEN <<>>
                                ELSE task_frame(c.files, c.bad, task_id)]
        /\ UNCHANGED <<immersion_file, toeic_file, config_file, written, disk>>

add_task_entry(task_id, entry_date, value, notes) ==
    LET c == try_create_task_data_file(task_files, unreadable.tasks, task_id,
                                       disk.tasks)
        df == IF c.raised THEN <<>> ELSE task_frame(c.files, c.bad, task_id)
        rows == task_entry_rows(df, entry_date, value, notes)
        mode == disk.tasks
        before == IF task_id \in DOMAIN written.task
                  THEN written.task[task_id] ELSE NoPayloads
    IN  /\ task_files' =
              IF c.raised \/ mode = "refused" THEN c.files
              ELSE IF mode = "torn" THEN save_task_data(c.files, task_id, <<>>)
              ELSE save_task_data(c.files, task_id, sort_values(rows))
        /\ unreadable' = [unreadable EXCEPT !.tasks =
                             IF c.raised \/ mode = "refused" THEN c.bad
                             ELSE IF mode = "torn" THEN c.bad \cup {task_id}
                             ELSE c.bad \ {task_id}]
        /\ last' = [op |-> "add_task_entry", task_id |-> task_id,
                    date |-> entry_date, value |-> value, notes |-> notes,
                    ret |-> ~c.raised /\ mode = "ok",
                    existed |-> HasDate(df, entry_date)]
        /\ written' = IF ~c.raised /\ mode = "ok"
                      THEN [written EXCEPT !.task =
                               (task_id :> [before EXCEPT ![entry_date] =
                                   {[value |-> value, notes |-> notes]}])
                               @@ @]
                      ELSE written
        /\ UNCHANGED <<immersion_file, toeic_file, config_file, disk>>

----------------------------------------------------------------------------
(* TaskConfigManager: the task catalog *)

\* A name or an id is the sequence of its characters.  A character outside
\* ASCII, the space and the tab are written by their code points.
Space == " "
IdeographicSpace == "U+3000"
Tab == "U+0009"

UpperCase == <<"A", "B", "C", "D", "E", "F", "G", "H", "I", "J", "K", "L", "M",
               "N", "O", "P", "Q", "R", "S", "T", "U", "V", "W", "X", "Y", "Z">>
LowerCase == <<"a", "b", "c", "d", "e", "f", "g", "h", "i", "j", "k", "l", "m",
               "n", "o", "p", "q", "r", "s", "t", "u", "v", "w", "x", "y", "z">>

\* str.lower(), one character
lower_char(c) ==
    IF \E i \in DOMAIN UpperCase : UpperCase[i] = c
    THEN LowerCase[CHOOSE i \in DOMAIN UpperCase : UpperCase[i] = c]
    ELSE c

\* name.lower().replace(" ", "_").replace(<ideographic space>, "_")
slug(name) ==
    [i \in DOMAIN name |->
        IF lower_char(name[i]) \in {Space, IdeographicSpace}
        THEN "_" ELSE lower_char(name[i])]

\* str(counter), an integer >= 0 in decimal
DigitChars == <<"0", "1", "2", "3", "4", "5", "6", "7", "8", "9">>
RECURSIVE decimal(_)
decimal(n) ==
    IF n < 10 THEN <<DigitChars[n + 1]>>
    ELSE Append(decimal(n \div 10), DigitChars[(n % 10) + 1])

\* f"{original_id}_{counter}"
suffixed(original_id, counter) == original_id \o <<"_">> \o decimal(counter)

\* while task_id in existing_ids: task_id = f"{original_id}_{counter}"; counter += 1
RECURSIVE first_unused(_, _, _, _)
first_unused(task_id, original_id, counter, existing_ids) ==
    IF task_id \in existing_ids
    THEN first_unused(suffixed(original_id, counter), original_id, counter + 1,
                      existing_ids)
    ELSE task_id

\* Mutant: the id is the slug, in use or not.
generate_task_id_no_suffix(name, existing_ids) == slug(name)

\* Mutant: the suffixes are counted from 0.
generate_task_id_from_zero(name, existing_ids) ==
    first_unused(slug(name), slug(name), 0, existing_ids)

generate_task_id(name, existing_ids) ==
    first_unused(slug(name), slug(name), 1, existing_ids)

\* get_available_units(), each unit by the code points of its characters:
\* minutes, hours, times, questions, problems, pages, chapters, pieces, books, days
AvailableUnits ==
    {"U+5206", "U+6642U+9593", "U+56DE", "U+554F", "U+984C",
     "U+30DA U+30FC U+30B8", "U+7AE0", "U+500B", "U+672C", "U+65E5"}

\* str.strip(): the characters str.isspace() holds of are trimmed at both ends
WhitespaceChars == {Space, IdeographicSpace, Tab}
RECURSIVE strip(_)
strip(name) ==
    IF name = <<>> THEN name
    ELSE IF name[1] \in WhitespaceChars THEN strip(Tail(name))
    ELSE IF name[Len(name)] \in WhitespaceChars
         THEN strip(SubSeq(name, 1, Len(name) - 1))
    ELSE name

MaxNameLength == 50
MaxTarget == 1000000

\* validate_task_input(name, unit, target)[0]
validate_task_input(name, unit, target) ==
    IF name = <<>> \/ Len(strip(name)) = 0 THEN FALSE
    ELSE IF Len(strip(name)) > MaxNameLength THEN FALSE
    ELSE IF unit \notin AvailableUnits THEN FALSE
    ELSE IF target <= 0 THEN FALSE
    ELSE IF target > MaxTarget THEN FALSE
    ELSE TRUE

\* The ids of the definitions _ensure_config_file seeds
Immersion == <<"i", "m", "m", "e", "r", "s", "i", "o", "n">>
ToeicShadowing ==
    <<"t", "o", "e", "i", "c", "_", "s", "h", "a", "d", "o", "w", "i", "n", "g">>
ToeicVocabulary ==
    <<"t", "o", "e", "i", "c", "_", "v", "o", "c", "a", "b", "u", "l", "a", "r", "y">>
ToeicReading ==
    <<"t", "o", "e", "i", "c", "_", "r", "e", "a", "d", "i", "n", "g">>

\* A definition; updated_date is the empty set while the key is absent.
TaskDefinition(id, name, unit, target, enabled, created_date) ==
    [id |-> id, name |-> name, unit |-> unit, target |-> target,
     enabled |-> enabled, created_date |-> created_date, updated_date |-> {}]

\* default_config, written when the manager is constructed (time 0)
default_config ==
    [tasks |-> <<
        TaskDefinition(Immersion,
            <<"U+30A4", "U+30DE", "U+30FC", "U+30B8", "U+30E7", "U+30F3",
              "U+5B66", "U+7FD2">>, "U+5206", 60000, TRUE, 0),
        TaskDefinition(ToeicShadowing,
            <<"U+30B7", "U+30E3", "U+30C9", "U+30FC", "U+30A4", "U+30F3",
              "U+30B0", "U+7DF4", "U+7FD2">>, "U+56DE", 365, TRUE, 0),
        TaskDefinition(ToeicVocabulary,
            <<"U+5358", "U+8A9E", "U+30C6", "U+30B9", "U+30C8">>,
            "U+554F", 73000, TRUE, 0),
        TaskDefinition(ToeicReading,
            <<"U+9577", "U+6587", "U+8AAD", "U+89E3">>, "U+984C", 1095, TRUE, 0)
    >>]

\* load_config(): the except branch returns a catalog with no tasks.
load_config == IF unreadable.config THEN [tasks |-> <<>>] ELSE config_file

\* The document after json.dump(config, f) under the mode of its disk.
json_written(mode, file, config) ==
    IF mode = "ok" THEN config
    ELSE IF mode = "torn" THEN [tasks |-> <<>>] ELSE file

\* get_all_tasks()
get_all_tasks == load_config.tasks

\* A call of get_all_tasks() by a page of the application.
show_all_tasks ==
    /\ last' = [op |-> "get_all_tasks", raised |-> FALSE,
                tasks |-> get_all_tasks]
    /\ UNCHANGED <<immersion_file, toeic_file, task_files, config_file,
                   written, unreadable, disk>>

\* [task["id"] for task in config["tasks"]]
ids_of(config) == {config.tasks[i].id : i \in DOMAIN config.tasks}

\* get_task_by_id(task_id) is not None
has_task(config, task_id) == task_id \in ids_of(config)

\* [task for task in config["tasks"] if task["id"] != task_id]
RECURSIVE tasks_without(_, _)
tasks_without(tasks, task_id) ==
    IF tasks = <<>> THEN <<>>
    ELSE LET rest == tasks_without(SubSeq(tasks, 1, Len(tasks) - 1), task_id)
             t == tasks[Len(tasks)]
         IN  IF t.id # task_id THEN Append(rest, t) ELSE rest

\* The bound on the catalog's length
MaxTasks == 7

add_task(name, unit, target, now) ==
    LET config == load_config
    IN  /\ Len(config.tasks) < MaxTasks
        /\ \E task_id \in {generate_task_id(name, ids_of(config))} :
              LET new_task ==
                      TaskDefinition(task_id, name, unit, target, TRUE, now)
                  c == try_create_task_data_file(task_files, unreadable.tasks,
                                                 task_id, disk.tasks)
                  mode == IF c.raised THEN "refused" ELSE disk.config
              IN  /\ task_files' = c.files
                  /\ config_file' =
                        json_written(mode, config_file,
                            [config EXCEPT !.tasks = Append(@, new_task)])
                  /\ unreadable' = [unreadable EXCEPT
                                       !.tasks = c.bad,
                                       !.config = unreadable_after(mode, @)]
                  /\ last' = [op |-> "add_task", name |-> name, unit |-> unit,
                              target |-> target, task_id |-> task_id,
                              ret |-> mode = "ok"]
                  /\ UNCHANGED <<immersion_file, toeic_file, written, disk>>

\* Mutant: a task updated without an enabled argument is enabled again.
updated_task_resets_enabled(task, name, unit, target, enabled, now) ==
    [task EXCEPT
        !.name = IF name # {} THEN CHOOSE x \in name : TRUE ELSE @,
        !.unit = IF unit # {} THEN CHOOSE x \in unit : TRUE ELSE @,
        !.target = IF target # {} THEN CHOOSE x \in target : TRUE ELSE @,
        !.enabled = IF enabled # {} THEN CHOOSE x \in enabled : TRUE ELSE TRUE,
        !.updated_date = {now}]

\* The task after the assignments update_task makes to it; an argument is the
\* empty set when it is None.
updated_task(task, name, unit, target, enabled, now) ==
    [task EXCEPT
        !.name = IF name # {} THEN CHOOSE x \in name : TRUE ELSE @,
        !.unit = IF unit # {} THEN CHOOSE x \in unit : TRUE ELSE @,
        !.target = IF target # {} THEN CHOOSE x \in target : TRUE ELSE @,
        !.enabled = IF enabled # {} THEN CHOOSE x \in enabled : TRUE ELSE @,
        !.updated_date = {now}]

\* for task in config["tasks"]: if task["id"] == task_id: ...; break
update_first(tasks, task_id, name, unit, target, enabled, now) ==
    IF \E i \in DOMAIN tasks : tasks[i].id = task_id
    THEN LET first == CHOOSE i \in DOMAIN tasks :
                         /\ tasks[i].id = task_id
                         /\ \A j \in 1..(i - 1) : tasks[j].id # task_id
         IN  [tasks EXCEPT ![first] =
                 updated_task(@, name, unit, target, enabled, now)]
    ELSE tasks

update_task(task_id, name, unit, target, enabled, now) ==
    LET config == load_config
        mode == disk.config
    IN  /\ config_file' = json_written(mode, config_file,
                              [config EXCEPT !.tasks =
                                  update_first(@, task_id, name, unit, target,
                                               enabled, now)])
        /\ unreadable' = [unreadable EXCEPT !.config = unreadable_after(mode, @)]
        /\ last' = [op |-> "update_task", task_id |-> task_id,
                    found |-> has_task(config, task_id),
                    name |-> name, unit |-> unit, target |-> target,
                    enabled |-> enabled, now |-> now, ret |-> mode = "ok"]
        /\ UNCHANGED <<immersion_file, toeic_file, task_files, written, disk>>

\* Mutant: the data file of the task is left where it is.
remove_data_file_skipped(files, task_id) == files

\* if os.path.exists(data_file): os.remove(data_file)
remove_data_file(files, task_id) ==
    [f \in DOMAIN files \ {task_id} |-> files[f]]

\* os.remove raises when the data directory refuses the change.
delete_task(task_id) ==
    LET config == load_config
        raised == data_file_exists(task_files, task_id) /\ disk.tasks = "refused"
        mode == IF raised THEN "refused" ELSE disk.config
    IN  /\ config_file' = json_written(mode, config_file,
                              [config EXCEPT !.tasks = tasks_without(@, task_id)])
        /\ task_files' = IF raised THEN task_files
                         ELSE remove_data_file(task_files, task_id)
        /\ unreadable' = [unreadable EXCEPT
                             !.tasks = IF raised THEN @ ELSE @ \ {task_id},
                             !.config = unreadable_after(mode, @)]
        /\ last' = [op |-> "delete_task", task_id |-> task_id,
                    found |-> has_task(config, task_id),
                    logged |-> IF data_file_exists(task_files, task_id)
                               THEN Len(task_files[task_id]) ELSE 0,
                    ret |-> mode = "ok"]
        /\ written' = IF raised THEN written
                      ELSE [written EXCEPT !.task =
                               [f \in DOMAIN @ \ {task_id} |-> @[f]]]
        /\ UNCHANGED <<immersion_file, toeic_file, disk>>

----------------------------------------------------------------------------
(* State after DataManager() and TaskConfigManager() in a fresh directory *)

Constructed ==
    /\ immersion_file = <<>>
    /\ toeic_file = <<>>
    /\ task_files = <<>>
    /\ config_file = default_config
    /\ written = [immersion |-> NoPayloads, task |-> <<>>]
    /\ unreadable = [immersion |-> FALSE, toeic |-> FALSE, config |-> FALSE,
                     tasks |-> {}]
    /\ disk = [immersion |-> "ok", toeic |-> "ok", config |-> "ok",
               tasks |-> "ok"]

Init == Constructed /\ last = [op |-> "init"]

----------------------------------------------------------------------------
(* The date-keyed stores.  The three stores share no file: an operation on *)
(* one reads and writes that store's file alone, so SpecStores follows the *)
(* behaviours that work on one store and leave the others as constructed.  *)

Bools == {TRUE, FALSE}
ToeicNotes == {""}
Values == {1, 2}

ImmersionOnly == toeic_file = <<>> /\ task_files = <<>>
ToeicOnly == immersion_file = <<>> /\ task_files = <<>>
TaskEntriesOnly == immersion_file = <<>> /\ toeic_file = <<>>

NextStores ==
    \/ \E d \in Dates, m \in Minutes, n \in Notes :
          ImmersionOnly /\ add_immersion_entry(d, m, n)
    \/ \E d \in Dates : ImmersionOnly /\ delete_immersion_entry(d)
    \/ \E d \in Dates, s \in Bools, v \in Bools, r \in Bools, n \in ToeicNotes :
          ToeicOnly /\ add_toeic_entry(d, s, v, r, n)
    \/ \E d \in Dates : ToeicOnly /\ delete_toeic_entry(d)
    \/ TaskEntriesOnly /\ load_task_data(Immersion)
    \/ \E d \in Dates, x \in Values, n \in Notes :
          TaskEntriesOnly /\ add_task_entry(Immersion, d, x, n)

SpecStores == Init /\ [][NextStores]_vars

----------------------------------------------------------------------------
(* Properties of the stores *)

\* What load returns for every store that has a file.
LoadedStores ==
    {load_immersion_data(immersion_file), load_toeic_data(toeic_file)}
        \cup {read_task_data(task_files, t) : t \in DOMAIN task_files}
PersistedStores ==
    {immersion_file, toeic_file} \cup {task_files[t] : t \in DOMAIN task_files}

UpsertOps == {"add_immersion_entry", "add_toeic_entry", "add_task_entry"}

\* C1: in every store, load returns at most one entry per date: an upsert on
\* a date that has an entry never adds a second row for it.
C1_OneEntryPerDate ==
    \A df \in LoadedStores :
        \A i \in DOMAIN df, j \in DOMAIN df : df[i].date = df[j].date => i = j

\* An upsert has just been made on a date that had an entry, next to another date.
C1_Witness ==
    /\ last.op = "add_immersion_entry" /\ last.existed
    /\ Len(load_immersion_data(immersion_file)) = 2

\* Python equality of two notes values: numbers compare by value, NaN equals nothing.
NumberOf(v) == IF v.kind = "int" THEN FloatRepr(v.text) ELSE v.text
PyEq(a, b) ==
    /\ a.kind # "nan" /\ b.kind # "nan"
    /\ IF a.kind = "str" \/ b.kind = "str"
       THEN a = b
       ELSE NumberOf(a) = NumberOf(b)

\* C2: the entry load returns for a date has the fields and the notes of the
\* last upsert on that date.
C2_LastWriteWins ==
    /\ \A d \in Dates : \A p \in written.immersion[d] :
          \E i \in DOMAIN load_immersion_data(immersion_file) :
              LET row == load_immersion_data(immersion_file)[i]
              IN  /\ row.date = d
                  /\ row.minutes = p.minutes
                  /\ PyEq(row.notes, Str(p.notes))
    /\ \A t \in DOMAIN written.task : \A d \in Dates : \A p \in written.task[t][d] :
          \E i \in DOMAIN read_task_data(task_files, t) :
              LET row == read_task_data(task_files, t)[i]
              IN  /\ row.date = d
                  /\ row.value = p.value
                  /\ PyEq(row.notes, Str(p.notes))

\* C3: load returns the entries strictly ascending by date, and the rows each
\* mutation persisted stand in ascending date order in the file.
C3_SortedByDate ==
    /\ \A df \in LoadedStores :
          \A i \in DOMAIN df, j \in DOMAIN df : i < j => df[i].date < df[j].date
    /\ \A file \in PersistedStores :
          \A i \in DOMAIN file, j \in DOMAIN file :
              i < j => file[i].date <= file[j].date

\* An entry has been inserted for a date earlier than the one already stored.
C3_Witness ==
    /\ last.op = "add_task_entry" /\ ~last.existed /\ last.date = 1
    /\ Len(task_files[last.task_id]) = 2

\* C4: an upsert repeated with the same arguments leaves load as it was after
\* the first call.
C4_UpsertIdempotent ==
    [][ /\ (last'.op = "add_immersion_entry" /\ last'.repeated)
           => load_immersion_data(immersion_file')
                = load_immersion_data(immersion_file)
        /\ (last'.op = "add_toeic_entry" /\ last'.repeated)
           => load_toeic_data(toeic_file') = load_toeic_data(toeic_file)
      ]_vars

\* The same upsert has been made twice in a row, numeric-looking notes included.
C4_Witness ==
    /\ last.op = "add_immersion_entry" /\ last.repeated /\ last.notes = "7"
    /\ Len(immersion_file) = 2

\* C5: every checklist entry has total_completed equal to the number of true
\* values among shadowing, vocabulary and reading.
C5_TotalCompleted ==
    \A i \in DOMAIN load_toeic_data(toeic_file) :
        LET row == load_toeic_data(toeic_file)[i]
        IN  /\ row.total_completed
                = Cardinality({c \in {"shadowing", "vocabulary", "reading"} : row[c]})
            /\ row.total_completed \in 0..3

\* An upsert has replaced the booleans of a date that had an entry.
C5_Witness ==
    /\ last.op = "add_toeic_entry" /\ last.existed /\ ~last.repeated
    /\ \E i \in DOMAIN toeic_file :
          toeic_file[i].date = last.date /\ toeic_file[i].total_completed = 2

\* C6: delete(date) reports success and leaves no entry for the date; when
\* the date had no entry, load is unchanged.
C6_Delete ==
    [][ /\ last'.op = "delete_immersion_entry"
           => /\ last'.ret
              /\ ~HasDate(load_immersion_data(immersion_file'), last'.date)
              /\ ~last'.existed
                 => load_immersion_data(immersion_file')
                      = load_immersion_data(immersion_file)
        /\ last'.op = "delete_toeic_entry"
           => /\ last'.ret
              /\ ~HasDate(load_toeic_data(toeic_file'), last'.date)
              /\ ~last'.existed
                 => load_toeic_data(toeic_file') = load_toeic_data(toeic_file)
      ]_vars

\* An entry has been deleted while another date keeps its entry.
C6_Witness ==
    /\ last.op = "delete_immersion_entry" /\ last.existed
    /\ Len(immersion_file) = 1

----------------------------------------------------------------------------
(* The catalog: add, update and delete of task definitions *)

\* datetime.now() at the calls; the seeded definitions are created at time 0
Times == {1}

Reading == <<"R", "e", "a", "d", "i", "n", "g">>
ReadingId == <<"r", "e", "a", "d", "i", "n", "g">>
Drill == <<"D", "r", "i", "l", "l">>
LongName == [i \in 1..(MaxNameLength + 1) |-> "x"]
Unknown == <<"n", "o", "s", "u", "c", "h">>
UnitTimes == "U+56DE"

\* The calls made on add_task: a name added again and again, names with a
\* space, an ideographic space and a tab, and inputs validate_task_input rejects.
AddInputs ==
    {[name |-> Reading, unit |-> UnitTimes, target |-> 100],
     [name |-> <<"a", Space, "b">>, unit |-> UnitTimes, target |-> 100],
     [name |-> <<"a", IdeographicSpace, "b">>, unit |-> UnitTimes, target |-> 100],
     [name |-> <<"a", Tab, "b">>, unit |-> UnitTimes, target |-> 100],
     [name |-> <<>>, unit |-> UnitTimes, target |-> 10],
     [name |-> LongName, unit |-> UnitTimes, target |-> 10],
     [name |-> Drill, unit |-> "km", target |-> 10],
     [name |-> Drill, unit |-> UnitTimes, target |-> 0],
     [name |-> Drill, unit |-> UnitTimes, target |-> 2000000]}

UpdateIds == {Immersion, Unknown}
UpdateInputs ==
    {[name |-> {Drill}, unit |-> {}, target |-> {500}, enabled |-> {FALSE}]}

DeleteIds == {ReadingId, Unknown}

NextCatalog ==
    \/ \E a \in AddInputs, now \in Times : add_task(a.name, a.unit, a.target, now)
    \/ \E id \in UpdateIds, u \in UpdateInputs, now \in Times :
          update_task(id, u.name, u.unit, u.target, u.enabled, now)
    \/ \E id \in DeleteIds : delete_task(id)

SpecCatalog == Init /\ [][NextCatalog]_vars

----------------------------------------------------------------------------
(* Properties of the catalog *)

\* C7: no two task definitions of the catalog have the same id.
C7_UniqueIds ==
    \A i \in DOMAIN config_file.tasks, j \in DOMAIN config_file.tasks :
        config_file.tasks[i].id = config_file.tasks[j].id => i = j

\* A task has been added whose name gives an id that was in use.
C7_Witness ==
    /\ last.op = "add_task" /\ last.ret
    /\ last.task_id # slug(last.name)
    /\ has_task(config_file, slug(last.name))

\* The id the statement of C8 gives a new task: the name lower-cased with
\* the characters of `blanks` replaced by underscores, or, when that id is in
\* use, that id with the suffix _n for the first n >= 1 that is not in use.
IsAssignedId(task_id, name, existing_ids, blanks) ==
    LET base == [i \in DOMAIN name |->
                    IF name[i] \in blanks THEN "_" ELSE lower_char(name[i])]
    IN  IF base \notin existing_ids THEN task_id = base
        ELSE \E n \in 1..(Cardinality(existing_ids) + 1) :
                /\ task_id = suffixed(base, n)
                /\ task_id \notin existing_ids
                /\ \A k \in 1..(n - 1) : suffixed(base, k) \in existing_ids

AddsWithId(blanks) ==
    (last'.op = "add_task" /\ last'.ret)
    => /\ IsAssignedId(last'.task_id, last'.name, ids_of(config_file), blanks)
       /\ Len(config_file'.tasks) = Len(config_file.tasks) + 1
       /\ config_file'.tasks[Len(config_file'.tasks)].id = last'.task_id

\* C8 as stated: add assigns the lower-cased name with every whitespace
\* character replaced by an underscore, suffixed _n on a collision.
C8_IdFromWhitespace == [][AddsWithId(WhitespaceChars)]_vars

\* C8 as amended: add assigns the lower-cased name with every space and every
\* ideographic space replaced by an underscore (a tab is kept), suffixed _n,
\* for the first n >= 1 whose suffixed id is unused, on a collision.
C8_IdFromSpaces == [][AddsWithId({Space, IdeographicSpace})]_vars

\* Two tasks named Reading have been added: their ids are reading and reading_1.
C8_Witness ==
    /\ last.op = "add_task" /\ last.name = Reading
    /\ last.task_id = suffixed(ReadingId, 1)
    /\ \E i \in DOMAIN config_file.tasks :
          config_file.tasks[i].id = ReadingId /\ config_file.tasks[i].name = Reading

\* The inputs C9 says add rejects.
IsRejectedInput(name, unit, target) ==
    \/ Len(strip(name)) = 0
    \/ Len(strip(name)) > 50
    \/ unit \notin AvailableUnits
    \/ target <= 0
    \/ target > 1000000

\* C9: add fails and leaves the catalog unchanged when the name is empty or
\* longer than 50 characters after trimming, the unit is not a recognized
\* unit, or the target is <= 0 or > 1,000,000.
C9_AddRejectsInvalid ==
    [][ (last'.op = "add_task"
            /\ IsRejectedInput(last'.name, last'.unit, last'.target))
        => (~last'.ret /\ config_file' = config_file) ]_vars

\* C10: update with an id no definition has reports a failure and leaves the
\* catalog unchanged.
C10_UpdateUnknownFails ==
    [][ (last'.op = "update_task" /\ ~last'.found)
        => (~last'.ret /\ config_file' = config_file) ]_vars

----------------------------------------------------------------------------
(* A custom task through its life: added, renamed and retargeted, logged   *)
(* to, deleted and added again.  Entries are also written to the id before *)
(* a task of that id is in the catalog, as add_task_entry takes any id.    *)

UnitMinutes == "U+5206"

TaskUpdateInputs ==
    {[name |-> {Drill}, unit |-> {}, target |-> {}, enabled |-> {}],
     [name |-> {}, unit |-> {UnitMinutes}, target |-> {500}, enabled |-> {FALSE}],
     [name |-> {}, unit |-> {}, target |-> {}, enabled |-> {}]}

NextTasks ==
    \/ \E now \in Times : add_task(Reading, UnitTimes, 100, now)
    \/ \E u \in TaskUpdateInputs, now \in Times :
          update_task(ReadingId, u.name, u.unit, u.target, u.enabled, now)
    \/ delete_task(ReadingId)
    \/ load_task_data(ReadingId)
    \/ \E d \in Dates, x \in Values : add_task_entry(ReadingId, d, x, "")

SpecTasks == Init /\ [][NextTasks]_vars

\* What load_task_data(task_id) returns: whether it raised, and the entries.
load_of(files, bad, mode, task_id) ==
    LET c == try_create_task_data_file(files, bad, task_id, mode)
    IN  [raised |-> c.raised,
         entries |-> IF c.raised THEN <<>>
                     ELSE task_frame(c.files, c.bad, task_id)]

\* What load_task_data(task_id) returns when it is called in this state.
LoadOfTask(task_id) == load_of(task_files, unreadable.tasks, disk.tasks, task_id)

\* C11: after a successful delete_task(id), get_task_by_id(id) finds no
\* definition and load_task_data(id) returns no entries, whatever had been
\* logged for the task.
C11_DeleteCascades ==
    (last.op = "delete_task" /\ last.ret)
    => /\ ~has_task(load_config, last.task_id)
       /\ LoadOfTask(last.task_id) = [raised |-> FALSE, entries |-> <<>>]

\* A task of the catalog that had entries for two dates has been deleted.
C11_Witness ==
    /\ last.op = "delete_task" /\ last.ret /\ last.found
    /\ last.logged = 2

\* C12: right after a successful add_task, load_task_data of the new
\* definition's id returns no entries.
C12_NewStoreEmpty ==
    (last.op = "add_task" /\ last.ret)
    => LoadOfTask(last.task_id) = [raised |-> FALSE, entries |-> <<>>]

\* The value update_task leaves in a field: the argument when one was given.
Supplied(argument, previous) ==
    IF argument # {} THEN CHOOSE x \in argument : TRUE ELSE previous

\* C13: update_task on an id of the catalog sets the fields that were given
\* and updated_date; id, created_date and the fields not given stay.
C13_PartialUpdate ==
    [][ (last'.op = "update_task" /\ last'.found /\ last'.ret)
        => /\ Len(config_file'.tasks) = Len(config_file.tasks)
           /\ \A i \in DOMAIN config_file.tasks :
                 config_file.tasks[i].id = last'.task_id
                 => LET old == config_file.tasks[i]
                        new == config_file'.tasks[i]
                    IN  /\ new.id = old.id
                        /\ new.created_date = old.created_date
                        /\ new.name = Supplied(last'.name, old.name)
                        /\ new.unit = Supplied(last'.unit, old.unit)
                        /\ new.target = Supplied(last'.target, old.target)
                        /\ new.enabled = Supplied(last'.enabled, old.enabled)
                        /\ new.updated_date = {last'.now}
      ]_vars

\* A disabled task has been renamed by an update that gave the name alone.
C13_Witness ==
    /\ last.op = "update_task" /\ last.found /\ last.ret
    /\ last.name = {Drill} /\ last.enabled = {}
    /\ \E i \in DOMAIN config_file.tasks :
          /\ config_file.tasks[i].id = ReadingId
          /\ config_file.tasks[i].name = Drill
          /\ ~config_file.tasks[i].enabled
          /\ config_file.tasks[i].target = 500

\* C14: every definition of the catalog has a name of trimmed length 1..50,
\* a unit of the recognized units and a target in (0, 1,000,000].
C14_CatalogValid ==
    \A i \in DOMAIN config_file.tasks :
        ~IsRejectedInput(config_file.tasks[i].name, config_file.tasks[i].unit,
                         config_file.tasks[i].target)

----------------------------------------------------------------------------
(* The stores and the catalog on a disk that fails.  Between two calls a   *)
(* file may be removed or mangled, and writes to a file or to the data     *)
(* directory may start or stop failing.  As in SpecStores, a behaviour     *)
(* works on one file and leaves the others as constructed.                 *)

Environment == [op |-> "environment"]

\* immersion_data.csv, toeic_data.csv or task_config.json is removed or mangled.
damage(target) ==
    /\ ~unreadable[target]
    /\ unreadable' = [unreadable EXCEPT ![target] = TRUE]
    /\ last' = Environment
    /\ UNCHANGED <<immersion_file, toeic_file, task_files, config_file,
                   written, disk>>

\* A data file of a task is mangled.
damage_task_file(task_id) ==
    /\ data_file_exists(task_files, task_id)
    /\ task_id \notin unreadable.tasks
    /\ unreadable' = [unreadable EXCEPT !.tasks = @ \cup {task_id}]
    /\ last' = Environment
    /\ UNCHANGED <<immersion_file, toeic_file, task_files, config_file,
                   written, disk>>

\* Writes to the target start to fail, or succeed again.
set_disk(target, mode) ==
    /\ disk[target] # mode
    /\ disk' = [disk EXCEPT ![target] = mode]
    /\ last' = Environment
    /\ UNCHANGED <<immersion_file, toeic_file, task_files, config_file,
                   written, unreadable>>

AsConstructed(target) ==
    /\ disk[target] = "ok"
    /\ CASE target = "immersion" -> immersion_file = <<>> /\ ~unreadable.immersion
         [] target = "toeic" -> toeic_file = <<>> /\ ~unreadable.toeic
         [] target = "tasks" -> task_files = <<>> /\ unreadable.tasks = {}
         [] target = "config" -> config_file = default_config /\ ~unreadable.config

Only(target) ==
    \A other \in {"immersion", "toeic", "tasks", "config"} \ {target} :
        AsConstructed(other)

FaultNotes == {"a"}
FaultMinutes == {30}

NextFaults ==
    \/ \E t \in {"immersion", "toeic", "config"} : Only(t) /\ damage(t)
    \/ Only("tasks") /\ damage_task_file(ReadingId)
    \/ \E t \in {"immersion", "toeic", "tasks"}, mode \in DiskModes :
          Only(t) /\ set_disk(t, mode)
    \/ \E d \in Dates, m \in FaultMinutes, n \in FaultNotes :
          Only("immersion") /\ add_immersion_entry(d, m, n)
    \/ \E d \in Dates : Only("immersion") /\ delete_immersion_entry(d)
    \/ Only("immersion") /\ show_immersion_data
    \/ \E d \in Dates, n \in FaultNotes :
          Only("toeic") /\ add_toeic_entry(d, TRUE, FALSE, TRUE, n)
    \/ \E d \in Dates : Only("toeic") /\ delete_toeic_entry(d)
    \/ Only("toeic") /\ show_toeic_data
    \/ \E d \in Dates, n \in FaultNotes :
          Only("tasks") /\ add_task_entry(ReadingId, d, 1, n)
    \/ Only("tasks") /\ load_task_data(ReadingId)
    \/ Only("config") /\ show_all_tasks

SpecFaults == Init /\ [][NextFaults]_vars

\* C15: an upsert or a delete whose write fails returns failure, and load
\* returns after the call the entries it returned before it.
C15_FailedWriteKeepsEntries ==
    [][ /\ (last'.op \in {"add_immersion_entry", "delete_immersion_entry"}
               /\ disk.immersion # "ok")
           => (~last'.ret /\ immersion_frame' = immersion_frame)
        /\ (last'.op \in {"add_toeic_entry", "delete_toeic_entry"}
               /\ disk.toeic # "ok")
           => (~last'.ret /\ toeic_frame' = toeic_frame)
        /\ (last'.op = "add_task_entry" /\ disk.tasks # "ok")
           => /\ ~last'.ret
              /\ load_of(task_files', unreadable'.tasks, disk'.tasks,
                         ReadingId).entries
                   = load_of(task_files, unreadable.tasks, disk.tasks,
                             ReadingId).entries
      ]_vars

\* C16: load of a store whose file is missing or cannot be parsed returns
\* no entries and does not raise; get_all_tasks returns no task when the
\* catalog document cannot be read.
C16_LoadOfMissingIsEmpty ==
    /\ (last.op = "load_immersion_data" /\ unreadable.immersion)
       => (~last.raised /\ last.entries = <<>>)
    /\ (last.op = "load_toeic_data" /\ unreadable.toeic)
       => (~last.raised /\ last.entries = <<>>)
    /\ (last.op = "load_task_data"
           /\ (last.created \/ last.task_id \in unreadable.tasks))
       => (~last.raised /\ last.entries = <<>>)
    /\ (last.op = "get_all_tasks" /\ unreadable.config)
       => (~last.raised /\ last.tasks = <<>>)

----------------------------------------------------------------------------
(* utils.calculate_progress_percentage.  A float is kept as the exact      *)
(* fraction of two integers in lowest terms, the denominator positive.     *)

RECURSIVE GCD(_, _)
GCD(a, b) == IF b = 0 THEN a ELSE GCD(b, a % b)

Fraction(n, d) ==
    LET g == GCD(IF n < 0 THEN -n ELSE n, d)
    IN  [num |-> n \div g, den |-> d \div g]
FractionLeq(a, b) == a.num * b.den <= b.num * a.den
FractionEq(a, b) == a.num * b.den = b.num * a.den

\* min(a, b) of Python: b when b < a, else a
FractionMin(a, b) == IF FractionLeq(a, b) THEN a ELSE b

\* Mutant: the quotient is returned as it is.
calculate_progress_percentage_uncapped(current_minutes, target_minutes) ==
    IF target_minutes <= 0 THEN Fraction(0, 1)
    ELSE Fraction(current_minutes * 100, target_minutes)

calculate_progress_percentage(current_minutes, target_minutes) ==
    IF target_minutes <= 0 THEN Fraction(0, 1)
    ELSE FractionMin(Fraction(current_minutes * 100, target_minutes),
                     Fraction(100, 1))

\* The totals and the targets the function is applied to.
ProgressTotals == {0, 1, 30, 50, 99, 100, 101, 250, 600, 1000}
ProgressTargets == {-5, 0, 1, 3, 100, 600}

InitProgress ==
    /\ Constructed
    /\ last \in {[op |-> "progress_arguments", current_minutes |-> c,
                  target_minutes |-> t] :
                     c \in ProgressTotals, t \in ProgressTargets}

progress_percentage_called ==
    /\ last.op = "progress_arguments"
    /\ last' = [op |-> "calculate_progress_percentage",
                current_minutes |-> last.current_minutes,
                target_minutes |-> last.target_minutes,
                result |-> calculate_progress_percentage(last.current_minutes,
                                                         last.target_minutes)]
    /\ UNCHANGED <<immersion_file, toeic_file, task_files, config_file,
                   written, unreadable, disk>>

SpecProgress == InitProgress /\ [][progress_percentage_called]_vars

\* C17: for total >= 0 and target > 0 the result is in [0, 100] and is
\* total / target * 100, or 100 when that is more; for target <= 0 it is 0.
C17_ProgressPercentage ==
    last.op = "calculate_progress_percentage"
    => LET total == last.current_minutes
           target == last.target_minutes
           r == last.result
       IN  /\ (total >= 0 /\ target > 0)
              => /\ 0 <= r.num /\ r.num <= 100 * r.den
                 /\ IF total * 100 <= 100 * target
                    THEN r.num * target = total * 100 * r.den
                    ELSE r.num = 100 * r.den
           /\ target <= 0 => r.num = 0

\* The function has been applied to a total above the target.
C17_Witness ==
    /\ last.op = "calculate_progress_percentage"
    /\ last.current_minutes = 250 /\ last.target_minutes = 100
    /\ last.result = Fraction(100, 1)

----------------------------------------------------------------------------
(* The summaries of the immersion store and of a custom task *)

\* Mutant: the sum is the value of the first row.
column_sum_first_row(df, column) ==
    IF df = <<>> THEN 0 ELSE df[1][column]

\* df[column].sum()
RECURSIVE column_sum(_, _)
column_sum(df, column) ==
    IF df = <<>> THEN 0
    ELSE column_sum(SubSeq(df, 1, Len(df) - 1), column) + df[Len(df)][column]

\* The goal get_immersion_summary divides by
ImmersionGoal == 60000

\* The dict get_immersion_summary returns for the frame it loaded
immersion_summary(df) ==
    IF df = <<>>
    THEN [total_minutes |-> 0, total_hours |-> Fraction(0, 1),
          days_studied |-> 0, average_daily |-> Fraction(0, 1),
          progress_percentage |-> Fraction(0, 1)]
    ELSE LET total_minutes == column_sum(df, "minutes")
         IN  [total_minutes |-> total_minutes,
              total_hours |-> Fraction(total_minutes, 60),
              days_studied |-> Len(df),
              average_daily |-> Fraction(total_minutes, Len(df)),
              progress_percentage |->
                  Fraction(total_minutes * 100, ImmersionGoal)]

get_immersion_summary ==
    /\ last' = [op |-> "get_immersion_summary",
                summary |-> immersion_summary(immersion_frame)]
    /\ UNCHANGED <<immersion_file, toeic_file, task_files, config_file,
                   written, unreadable, disk>>

\* get_task_by_id(task_id): the first task of the id, the empty set for None
get_task_by_id(task_id) ==
    LET tasks == get_all_tasks
    IN  IF \E i \in DOMAIN tasks : tasks[i].id = task_id
        THEN {tasks[CHOOSE i \in DOMAIN tasks :
                        /\ tasks[i].id = task_id
                        /\ \A j \in 1..(i - 1) : tasks[j].id # task_id]}
        ELSE {}

\* The dict get_task_summary returns for the task and the frame it loaded
task_summary(task, df) ==
    IF df = <<>>
    THEN [task_name |-> task.name, unit |-> task.unit, target |-> task.target,
          total_value |-> 0, days_logged |-> 0,
          progress_percentage |-> Fraction(0, 1),
          average_daily |-> Fraction(0, 1)]
    ELSE LET total_value == column_sum(df, "value")
         IN  [task_name |-> task.name, unit |-> task.unit,
              target |-> task.target,
              total_value |-> total_value, days_logged |-> Len(df),
              progress_percentage |->
                  IF task.target > 0
                  THEN Fraction(total_value * 100, task.target)
                  ELSE Fraction(0, 1),
              average_daily |-> Fraction(total_value, Len(df))]

\* get_task_summary: {} for an id the catalog does not hold; load_task_data is
\* called outside any try block.
get_task_summary(task_id) ==
    LET found == get_task_by_id(task_id)
        c == try_create_task_data_file(task_files, unreadable.tasks, task_id,
                                       disk.tasks)
    IN  IF found = {}
        THEN /\ last' = [op |-> "get_task_summary", task_id |-> task_id,
                         found |-> FALSE, raised |-> FALSE]
             /\ UNCHANGED <<immersion_file, toeic_file, task_files,
                            config_file, written, unreadable, disk>>
        ELSE /\ task_files' = c.files
             /\ unreadable' = [unreadable EXCEPT !.tasks = c.bad]
             /\ last' =
                   IF c.raised
                   THEN [op |-> "get_task_summary", task_id |-> task_id,
                         found |-> TRUE, raised |-> TRUE]
                   ELSE [op |-> "get_task_summary", task_id |-> task_id,
                         found |-> TRUE, raised |-> FALSE,
                         summary |->
                             task_summary(CHOOSE t \in found : TRUE,
                                          task_frame(c.files, c.bad, task_id))]
             /\ UNCHANGED <<immersion_file, toeic_file, config_file, written,
                            disk>>

\* Minutes and values large against the goals, and a task whose target is 0.
SummaryMinutes == {40000}
SummaryValues == {60}
DrillId == <<"d", "r", "i", "l", "l">>
SummaryTasks ==
    {[name |-> Reading, id |-> ReadingId, target |-> 100],
     [name |-> Drill, id |-> DrillId, target |-> 0]}

NextSummary ==
    \/ \E d \in Dates, m \in SummaryMinutes :
          AsConstructed("tasks") /\ AsConstructed("config")
              /\ add_immersion_entry(d, m, "")
    \/ get_immersion_summary
    \/ \E t \in SummaryTasks, now \in Times :
          AsConstructed("immersion") /\ ~has_task(load_config, t.id)
              /\ add_task(t.name, UnitTimes, t.target, now)
    \/ \E t \in SummaryTasks, d \in Dates, x \in SummaryValues :
          AsConstructed("immersion") /\ add_task_entry(t.id, d, x, "")
    \/ \E t \in SummaryTasks : get_task_summary(t.id)

SpecSummary == Init /\ [][NextSummary]_vars

\* The percentage the statement of C18 gives a total and a target.
CappedPercentage(total, target) ==
    IF target <= 0 THEN Fraction(0, 1)
    ELSE IF total * 100 <= 100 * target THEN Fraction(total * 100, target)
    ELSE Fraction(100, 1)

\* C18: the progress_percentage of get_immersion_summary and of
\* get_task_summary is min(total / target * 100, 100), and 0 for target <= 0.
C18_SummaryPercentageCapped ==
    /\ last.op = "get_immersion_summary"
       => last.summary.progress_percentage
            = CappedPercentage(last.summary.total_minutes, ImmersionGoal)
    /\ (last.op = "get_task_summary" /\ last.found /\ ~last.raised)
       => last.summary.progress_percentage
            = CappedPercentage(last.summary.total_value, last.summary.target)

----------------------------------------------------------------------------
(* utils.calculate_study_streak, applied to a frame of the immersion store *)
(* on the day `today` (date.today()).                                      *)

\* The last day a frame has an entry for; today is one of these or the next
MaxStreakDay == 5
StreakDays == 1..MaxStreakDay

\* set(df_sorted[df_sorted['minutes'] >= min_minutes]['date'])
study_dates_of(df, min_minutes) ==
    {df[i].date : i \in {j \in DOMAIN df : df[j].minutes >= min_minutes}}

\* Mutant: a today that does not qualify is passed over.
current_streak_of_lenient(study_dates, current_date) ==
    LET RECURSIVE back(_)
        back(day) == IF day \in study_dates THEN 1 + back(day - 1) ELSE 0
    IN  IF current_date \in study_dates THEN back(current_date)
        ELSE back(current_date - 1)

\* while current_date in study_dates: current_streak += 1; current_date -= 1 day
RECURSIVE current_streak_of(_, _)
current_streak_of(study_dates, current_date) ==
    IF current_date \in study_dates
    THEN 1 + current_streak_of(study_dates, current_date - 1)
    ELSE 0

\* for check_date in date_range: the values of temp_streak and longest_streak
\* after the days first..check_date
RECURSIVE streak_loop(_, _, _)
streak_loop(study_dates, first, check_date) ==
    IF check_date < first THEN [temp_streak |-> 0, longest_streak |-> 0]
    ELSE LET before == streak_loop(study_dates, first, check_date - 1)
         IN  IF check_date \in study_dates
             THEN LET temp_streak == before.temp_streak + 1
                  IN  [temp_streak |-> temp_streak,
                       longest_streak |->
                           IF before.longest_streak >= temp_streak
                           THEN before.longest_streak ELSE temp_streak]
             ELSE [temp_streak |-> 0, longest_streak |-> before.longest_streak]

\* Mutant: the days of the range that qualify are counted, gaps or not.
longest_streak_of_unbroken(df, study_dates) ==
    Cardinality(study_dates)

\* The longest streak over pd.date_range(min date, max date) of a sorted frame
longest_streak_of(df, study_dates) ==
    streak_loop(study_dates, df[1].date, df[Len(df)].date).longest_streak

calculate_study_streak(df, min_minutes, today) ==
    IF df = <<>> THEN [current_streak |-> 0, longest_streak |-> 0]
    ELSE LET df_sorted == sort_values(df)
             study_dates == study_dates_of(df_sorted, min_minutes)
         IN  [current_streak |-> current_streak_of(study_dates, today),
              longest_streak |-> longest_streak_of(df_sorted, study_dates)]

\* The frames: every day has no entry, an entry of 15 or an entry of 60 minutes.
StreakMinutes == {15, 60}
MinMinutes == {1, 45}
StreakFrames ==
    {SelectSeq([d \in StreakDays |->
                   [date |-> d, minutes |-> f[d], notes |-> NaN]],
               LAMBDA row : row.minutes # 0) :
        f \in [StreakDays -> StreakMinutes \cup {0}]}

InitStreak ==
    /\ Constructed
    /\ last \in {[op |-> "streak_arguments", df |-> df, min_minutes |-> k,
                  today |-> t] :
                     df \in StreakFrames, k \in MinMinutes,
                     t \in 1..(MaxStreakDay + 1)}

study_streak_called ==
    /\ last.op = "streak_arguments"
    /\ last' = [op |-> "calculate_study_streak", df |-> last.df,
                min_minutes |-> last.min_minutes, today |-> last.today,
                result |-> calculate_study_streak(last.df, last.min_minutes,
                                                  last.today)]
    /\ UNCHANGED <<immersion_file, toeic_file, task_files, config_file,
                   written, unreadable, disk>>

SpecStreak == InitStreak /\ [][study_streak_called]_vars

\* The days that have an entry of at least min_minutes.
QualifyingDays(df, min_minutes) ==
    {d \in StreakDays :
        \E i \in DOMAIN df : df[i].date = d /\ df[i].minutes >= min_minutes}

\* C19: the current streak is the number of consecutive days, ending at
\* today and going back, that each qualify; 0 when today does not qualify.
C19_CurrentStreak ==
    last.op = "calculate_study_streak"
    => LET qualifying == QualifyingDays(last.df, last.min_minutes)
       IN  last.result.current_streak
             = Cardinality({k \in 1..last.today :
                               \A j \in 0..(k - 1) :
                                   (last.today - j) \in qualifying})

\* Qualifying days 1, 2, 3 and 5, and today is day 3: the streak is 3.
C19_Witness ==
    /\ last.op = "calculate_study_streak" /\ last.today = 3
    /\ QualifyingDays(last.df, last.min_minutes) = {1, 2, 3, 5}
    /\ last.result.current_streak = 3

\* C20: the longest streak is the length of the longest run of consecutive
\* calendar days that each qualify; a day without a qualifying entry breaks it.
C20_LongestStreak ==
    last.op = "calculate_study_streak"
    => LET qualifying == QualifyingDays(last.df, last.min_minutes)
           HasRun(length) ==
               \E start \in StreakDays :
                   \A j \in 0..(length - 1) : (start + j) \in qualifying
       IN  /\ HasRun(last.result.longest_streak)
           /\ ~HasRun(last.result.longest_streak + 1)

\* Qualifying days 1, 2, 3 and 5, day 4 has an entry that does not qualify.
C20_Witness ==
    /\ last.op = "calculate_study_streak" /\ last.today = 5
    /\ QualifyingDays(last.df, last.min_minutes) = {1, 2, 3, 5}
    /\ Len(last.df) = 5
    /\ last.result.longest_streak = 3
    /\ last.result.current_streak = 1

----------------------------------------------------------------------------
(* visualizations.calculate_current_streak and calculate_best_streak, as   *)
(* create_toeic_charts applies them to the last rows of the checklist      *)
(* store on the day `today`.                                               *)

\* toeic_df.tail(14)
TailRows == 14
tail(df, n) ==
    IF Len(df) <= n THEN df ELSE SubSeq(df, Len(df) - n + 1, Len(df))

\* for i in range(len(df) - 1, -1, -1): the streak counted from row i back
RECURSIVE current_streak_from(_, _, _, _)
current_streak_from(df, i, column, target_value) ==
    IF i = 0 THEN 0
    ELSE IF df[i][column] = target_value
         THEN 1 + current_streak_from(df, i - 1, column, target_value)
         ELSE 0

\* Mutant: the rows that reach the target are counted wherever they are.
calculate_current_streak_any_row(df, column, target_value) ==
    Cardinality({i \in DOMAIN df : df[i][column] = target_value})

calculate_current_streak(df, column, target_value) ==
    IF df = <<>> THEN 0
    ELSE current_streak_from(df, Len(df), column, target_value)

\* for _, row in df.iterrows(): the values of current_streak and best_streak
\* after the rows 1..i
RECURSIVE best_streak_loop(_, _, _, _)
best_streak_loop(df, i, column, target_value) ==
    IF i = 0 THEN [current_streak |-> 0, best_streak |-> 0]
    ELSE LET before == best_streak_loop(df, i - 1, column, target_value)
         IN  IF df[i][column] = target_value
             THEN LET current_streak == before.current_streak + 1
                  IN  [current_streak |-> current_streak,
                       best_streak |->
                           IF before.best_streak >= current_streak
                           THEN before.best_streak ELSE current_streak]
             ELSE [current_streak |-> 0, best_streak |-> before.best_streak]

calculate_best_streak(df, column, target_value) ==
    IF df = <<>> THEN 0
    ELSE best_streak_loop(df, Len(df), column, target_value).best_streak

\* The frames load_toeic_data can return: every day has no entry, an entry
\* with two of the tasks done or an entry with the three of them done.
ChecklistMarks == {"none", "partial", "perfect"}
ChecklistRow(d, mark) ==
    LET vocabulary == mark = "perfect"
    IN  [date |-> d, shadowing |-> TRUE, vocabulary |-> vocabulary,
         reading |-> TRUE,
         total_completed |-> total_completed_of(TRUE, vocabulary, TRUE),
         notes |-> NaN]
ChecklistFrames ==
    {SelectSeq([d \in StreakDays |-> [day |-> d, mark |-> f[d]]],
               LAMBDA cell : cell.mark # "none") : f \in [StreakDays -> ChecklistMarks]}

checklist_frame(cells) ==
    [i \in DOMAIN cells |-> ChecklistRow(cells[i].day, cells[i].mark)]

InitChecklistStreak ==
    /\ Constructed
    /\ last \in {[op |-> "checklist_arguments", df |-> checklist_frame(cells),
                  today |-> t] :
                     cells \in ChecklistFrames, t \in 1..(MaxStreakDay + 1)}

checklist_streaks_called ==
    /\ last.op = "checklist_arguments"
    /\ \E toeic_df \in {tail(last.df, TailRows)} :
          last' = [op |-> "create_toeic_charts", df |-> last.df,
                   today |-> last.today,
                   current_streak |->
                       calculate_current_streak(toeic_df, "total_completed", 3),
                   best_streak |->
                       calculate_best_streak(toeic_df, "total_completed", 3)]
    /\ UNCHANGED <<immersion_file, toeic_file, task_files, config_file,
                   written, unreadable, disk>>

SpecChecklistStreak == InitChecklistStreak /\ [][checklist_streaks_called]_vars

\* The days that have a checklist entry with the three tasks done.
PerfectDays(df) ==
    {d \in StreakDays :
        \E i \in DOMAIN df : df[i].date = d /\ df[i].total_completed = 3}

\* C21: the checklist current streak is the number of consecutive calendar
\* days, ending at today and going back, that each have an entry with
\* total_completed = 3; a day without an entry stops the count and the streak
\* is 0 when today has no such entry.
C21_ChecklistCurrentStreak ==
    last.op = "create_toeic_charts"
    => LET perfect == PerfectDays(last.df)
       IN  last.current_streak
             = Cardinality({k \in 1..last.today :
                               \A j \in 0..(k - 1) : (last.today - j) \in perfect})

\* C22: the checklist best streak is the length of the longest run of
\* consecutive calendar days that each have an entry with total_completed = 3;
\* two such entries with a day without an entry between them are in different
\* runs.
C22_ChecklistBestStreak ==
    last.op = "create_toeic_charts"
    => LET perfect == PerfectDays(last.df)
           HasRun(length) ==
               \E start \in StreakDays :
                   \A j \in 0..(length - 1) : (start + j) \in perfect
       IN  /\ HasRun(last.best_streak)
           /\ ~HasRun(last.best_streak + 1)

----------------------------------------------------------------------------
(* The summaries against what was logged: upserts and deletes on the       *)
(* immersion store, upserts on the store of the task immersion, and the    *)
(* two summaries, with no fault.                                           *)

NextTotals ==
    \/ \E d \in Dates, m \in Minutes, n \in Notes :
          ImmersionOnly /\ add_immersion_entry(d, m, n)
    \/ \E d \in Dates : ImmersionOnly /\ delete_immersion_entry(d)
    \/ get_immersion_summary
    \/ \E d \in Dates, x \in Minutes :
          TaskEntriesOnly /\ add_task_entry(Immersion, d, x, "")
    \/ TaskEntriesOnly /\ get_task_summary(Immersion)

SpecTotals == Init /\ [][NextTotals]_vars

\* The dates with a logged payload, and the sum of a field of the payloads
\* of the days 1..d.
LoggedDates(payloads) == {d \in Dates : payloads[d] # {}}
RECURSIVE LoggedTotal(_, _, _)
LoggedTotal(payloads, field, d) ==
    IF d = 0 THEN 0
    ELSE LoggedTotal(payloads, field, d - 1)
            + (IF payloads[d] = {} THEN 0
               ELSE (CHOOSE p \in payloads[d] : TRUE)[field])

\* The total, day count and average the statement of C23 gives the payloads.
TotalsOf(payloads, field) ==
    LET total == LoggedTotal(payloads, field, MaxDate)
        days == Cardinality(LoggedDates(payloads))
    IN  [total |-> total, days |-> days,
         average |-> IF days = 0 THEN Fraction(0, 1) ELSE Fraction(total, days)]

LoggedOfTask(task_id) ==
    IF task_id \in DOMAIN written.task THEN written.task[task_id] ELSE NoPayloads

\* C23: after any upserts and deletes, the total of a summary is the sum of
\* the values last logged for the dates the store holds, its day count is the
\* number of those dates and its average their mean; total and average are 0
\* for an empty store.
C23_SummaryTotals ==
    /\ last.op = "get_immersion_summary"
       => LET expected == TotalsOf(written.immersion, "minutes")
          IN  /\ last.summary.total_minutes = expected.total
              /\ last.summary.days_studied = expected.days
              /\ last.summary.average_daily = expected.average
    /\ (last.op = "get_task_summary" /\ last.found /\ ~last.raised)
       => LET expected == TotalsOf(LoggedOfTask(last.task_id), "value")
          IN  /\ last.summary.total_value = expected.total
              /\ last.summary.days_logged = expected.days
              /\ last.summary.average_daily = expected.average

\* 30 minutes logged for day 1 and 45 for day 2: total 75, average 37.5.
C23_Witness ==
    /\ last.op = "get_immersion_summary"
    /\ \E p \in written.immersion[1] : p.minutes = 30
    /\ \E p \in written.immersion[2] : p.minutes = 45
    /\ LoggedDates(written.immersion) = {1, 2}
    /\ last.summary.total_minutes = 75
    /\ last.summary.days_studied = 2
    /\ last.summary.average_daily = Fraction(75, 2)

----------------------------------------------------------------------------
(* get_enabled_tasks against get_all_tasks and get_task_by_id *)

\* Mutant: the filter on the enabled flag is left out.
get_enabled_tasks_unfiltered == get_all_tasks

\* [task for task in tasks if task.get("enabled", True)]
get_enabled_tasks == SelectSeq(get_all_tasks, LAMBDA task : task.enabled)

\* The number of enabled definitions among the first i of a list.
EnabledRank(tasks, i) == Cardinality({j \in 1..i : tasks[j].enabled})

\* C24: get_enabled_tasks returns the definitions of get_all_tasks whose
\* enabled flag is true and no other, in the order they have in get_all_tasks;
\* a definition an update disabled is not in it, and is still in get_all_tasks
\* and returned by get_task_by_id.
C24_EnabledTasks ==
    LET all == get_all_tasks
        enabled == get_enabled_tasks
    IN  /\ Len(enabled) = EnabledRank(all, Len(all))
        /\ \A i \in DOMAIN all :
              all[i].enabled => enabled[EnabledRank(all, i)] = all[i]
        /\ (/\ last.op = "update_task" /\ last.found /\ last.ret
            /\ last.enabled = {FALSE})
           => /\ \A i \in DOMAIN enabled : enabled[i].id # last.task_id
              /\ \E i \in DOMAIN all : all[i].id = last.task_id
              /\ \E task \in get_task_by_id(last.task_id) :
                    task.id = last.task_id /\ ~task.enabled

\* The first definition has been disabled and another one added: the enabled
\* definitions are the second to the last of the catalog.
C24_Witness ==
    /\ last.op = "update_task" /\ last.found /\ last.ret
    /\ last.enabled = {FALSE} /\ last.task_id = Immersion
    /\ Len(get_all_tasks) = 5
    /\ get_enabled_tasks = Tail(get_all_tasks)

----------------------------------------------------------------------------
(* utils.get_study_statistics, applied to a frame of the immersion store *)

\* Mutant: of the rows that reach the maximum the last one is taken.
idxmax_last(df, column) ==
    CHOOSE i \in DOMAIN df :
        /\ \A j \in DOMAIN df : df[j][column] <= df[i][column]
        /\ \A j \in DOMAIN df : j > i => df[j][column] < df[i][column]

\* df[column].idxmax(): the first row that reaches the maximum
idxmax(df, column) ==
    CHOOSE i \in DOMAIN df :
        /\ \A j \in DOMAIN df : df[j][column] <= df[i][column]
        /\ \A j \in DOMAIN df : j < i => df[j][column] < df[i][column]

\* df[column].idxmin(): the first row that reaches the minimum
idxmin(df, column) ==
    CHOOSE i \in DOMAIN df :
        /\ \A j \in DOMAIN df : df[j][column] >= df[i][column]
        /\ \A j \in DOMAIN df : j < i => df[j][column] > df[i][column]

\* The k-th smallest value of a column
kth_smallest(df, column, k) ==
    CHOOSE v \in {df[i][column] : i \in DOMAIN df} :
        /\ Cardinality({i \in DOMAIN df : df[i][column] < v}) < k
        /\ Cardinality({i \in DOMAIN df : df[i][column] <= v}) >= k

\* df[column].median()
median(df, column) ==
    LET n == Len(df)
    IN  IF n % 2 = 1 THEN Fraction(kth_smallest(df, column, (n + 1) \div 2), 1)
        ELSE Fraction(kth_smallest(df, column, n \div 2)
                         + kth_smallest(df, column, n \div 2 + 1), 2)

\* The dict get_study_statistics returns; None is the empty set.
get_study_statistics(df) ==
    IF df = <<>>
    THEN [total_sessions |-> 0, total_minutes |-> 0,
          total_hours |-> Fraction(0, 1), average_session |-> Fraction(0, 1),
          median_session |-> Fraction(0, 1),
          most_productive_day |-> {}, least_productive_day |-> {}]
    ELSE LET total_minutes == column_sum(df, "minutes")
             max_day == df[idxmax(df, "minutes")]
             min_day == df[idxmin(df, "minutes")]
         IN  [total_sessions |-> Len(df), total_minutes |-> total_minutes,
              total_hours |-> Fraction(total_minutes, 60),
              average_session |-> Fraction(total_minutes, Len(df)),
              median_session |-> median(df, "minutes"),
              most_productive_day |->
                  {[date |-> max_day.date, minutes |-> max_day.minutes]},
              least_productive_day |->
                  {[date |-> min_day.date, minutes |-> min_day.minutes]}]

\* The argument is a frame load_immersion_data returned.
InitStatistics ==
    /\ Constructed
    /\ last \in {[op |-> "statistics_arguments", df |-> df] : df \in StreakFrames}

study_statistics_called ==
    /\ last.op = "statistics_arguments"
    /\ last' = [op |-> "get_study_statistics", df |-> last.df,
                result |-> get_study_statistics(last.df)]
    /\ UNCHANGED <<immersion_file, toeic_file, task_files, config_file,
                   written, unreadable, disk>>

SpecStatistics == InitStatistics /\ [][study_statistics_called]_vars

\* The set holding the entry of the earliest of the dates whose minutes are
\* `extreme`, reduced to its date and minutes.
EarliestWith(df, extreme) ==
    {[date |-> d, minutes |-> extreme] :
        d \in {e \in StreakDays :
                  /\ \E i \in DOMAIN df : df[i].date = e /\ df[i].minutes = extreme
                  /\ \A i \in DOMAIN df :
                        df[i].minutes = extreme => df[i].date >= e}}

\* C25: the most and the least productive day are entries with the largest
\* and the smallest minutes of the frame, of several such entries the one with
\* the earliest date, and both are absent for an empty frame.
C25_ProductiveDays ==
    last.op = "get_study_statistics"
    => IF last.df = <<>>
       THEN /\ last.result.most_productive_day = {}
            /\ last.result.least_productive_day = {}
       ELSE \E largest \in {last.df[i].minutes : i \in DOMAIN last.df},
               smallest \in {last.df[i].minutes : i \in DOMAIN last.df} :
               /\ \A i \in DOMAIN last.df :
                     /\ last.df[i].minutes <= largest
                     /\ last.df[i].minutes >= smallest
               /\ last.result.most_productive_day = EarliestWith(last.df, largest)
               /\ last.result.least_productive_day = EarliestWith(last.df, smallest)

\* 15 minutes on days 1 and 3, 60 on days 2 and 4: day 2 and day 1.
C25_Witness ==
    /\ last.op = "get_study_statistics"
    /\ Len(last.df) = 4
    /\ \A i \in 1..4 : /\ last.df[i].date = i
                       /\ last.df[i].minutes = IF i % 2 = 0 THEN 60 ELSE 15
    /\ last.result.most_productive_day = {[date |-> 2, minutes |-> 60]}
    /\ last.result.least_productive_day = {[date |-> 1, minutes |-> 15]}

----------------------------------------------------------------------------
(* The catalog on a disk that fails.  The catalog document may stop being  *)
(* readable (mangled, or its read permission withdrawn), and writes to the *)
(* document or to the data directory may start or stop failing, between    *)
(* two calls that add, update or delete a task or log to its store.        *)

CatalogFaultIds == {Immersion, ReadingId}

NextCatalogFaults ==
    \/ damage("config")
    \/ \E t \in {"config", "tasks"}, mode \in DiskModes : set_disk(t, mode)
    \/ \E now \in Times :
          ~has_task(load_config, ReadingId) /\ add_task(Reading, UnitTimes, 100, now)
    \/ \E id \in CatalogFaultIds, u \in UpdateInputs, now \in Times :
          update_task(id, u.name, u.unit, u.target, u.enabled, now)
    \/ \E id \in CatalogFaultIds : delete_task(id)
    \/ \E d \in Dates : add_task_entry(ReadingId, d, 1, "")

SpecCatalogFaults == Init /\ [][NextCatalogFaults]_vars

\* C26: an add_task or a delete_task that returns False leaves the catalog
\* document and every data file of a task as they were before the call.
C26_FailedCatalogOpKeepsAll ==
    [][ (last'.op \in {"add_task", "delete_task"} /\ ~last'.ret)
        => /\ config_file' = config_file
           /\ unreadable'.config = unreadable.config
           /\ task_files' = task_files
           /\ unreadable'.tasks = unreadable.tasks ]_vars

\* The definitions of a list other than the one of the id, in their order.
OtherTasks(tasks, task_id) == SelectSeq(tasks, LAMBDA task : task.id # task_id)

\* C28: add_task leaves the definitions of the catalog document as they are
\* and in their order, with at most one more at the end; update_task and
\* delete_task leave every definition of another id as it is and in its
\* order, also when the document could not be read at the start of the call.
C28_CatalogFrame ==
    [][ LET before == config_file.tasks
            after == config_file'.tasks
        IN  /\ last'.op = "add_task"
               => \/ after = before
                  \/ /\ Len(after) = Len(before) + 1
                     /\ SubSeq(after, 1, Len(before)) = before
                     /\ after[Len(after)].id = last'.task_id
            /\ last'.op \in {"update_task", "delete_task"}
               => OtherTasks(after, last'.task_id)
                     = OtherTasks(before, last'.task_id)
      ]_vars

----------------------------------------------------------------------------
(* Frame of the date-keyed stores *)

\* Two notes values are the same: both missing, or equal in Python.
SameNotes(a, b) == (a.kind = "nan" /\ b.kind = "nan") \/ PyEq(a, b)

\* Every entry of `before` for a date other than `date` is in `after` with
\* the fields of `columns` and the notes it had.
OtherDatesKept(before, after, date, columns) ==
    \A i \in DOMAIN before :
        before[i].date # date
        => \E j \in DOMAIN after :
              /\ after[j].date = before[i].date
              /\ \A c \in columns : after[j][c] = before[i][c]
              /\ SameNotes(after[j].notes, before[i].notes)

\* C27: an upsert or a delete on a date leaves the entry of every other date
\* in the store, with the fields and the notes load returned for it before.
C27_StoreFrame ==
    [][ /\ last'.op \in {"add_immersion_entry", "delete_immersion_entry"}
           => OtherDatesKept(load_immersion_data(immersion_file),
                             load_immersion_data(immersion_file'),
                             last'.date, {"minutes"})
        /\ last'.op \in {"add_toeic_entry", "delete_toeic_entry"}
           => OtherDatesKept(load_toeic_data(toeic_file),
                             load_toeic_data(toeic_file'), last'.date,
                             {"shadowing", "vocabulary", "reading",
                              "total_completed"})
        /\ (last'.op = "add_task_entry"
               /\ data_file_exists(task_files, last'.task_id))
           => OtherDatesKept(read_task_data(task_files, last'.task_id),
                             read_task_data(task_files', last'.task_id),
                             last'.date, {"value"})
      ]_vars

----------------------------------------------------------------------------
(* Data of tasks the catalog does not hold *)

\* C29: a data file of a task exists only for an id the catalog holds, so
\* add_task_entry and load_task_data with an id that is not in the catalog
\* store no entry and create no data file for it.
C29_NoOrphanData ==
    \A task_id \in DOMAIN task_files : has_task(load_config, task_id)

----------------------------------------------------------------------------
(* The current streak against the longest one, for the two pairs of streak *)
(* functions.                                                              *)

InitStreakOrder == InitStreak \/ InitChecklistStreak

NextStreakOrder == study_streak_called \/ checklist_streaks_called

SpecStreakOrder == InitStreakOrder /\ [][NextStreakOrder]_vars

\* C30: the current streak calculate_study_streak returns is at most the
\* longest streak it returns, and both are 0 for an empty frame; the streak
\* calculate_current_streak returns is at most the one calculate_best_streak
\* returns for the same frame.
C30_CurrentAtMostLongest ==
    /\ last.op = "calculate_study_streak"
       => /\ last.result.current_streak <= last.result.longest_streak
          /\ last.df = <<>>
             => last.result = [current_streak |-> 0, longest_streak |-> 0]
    /\ last.op = "create_toeic_charts"
       => last.current_streak <= last.best_streak

\* The two streaks differ and the current one is not 0, for both pairs.
C30_Witness ==
    \/ /\ last.op = "calculate_study_streak"
       /\ last.result.current_streak = 2
       /\ last.result.longest_streak = 3
    \/ /\ last.op = "create_toeic_charts"
       /\ last.current_streak = 1
       /\ last.best_streak = 3

====
